---- MODULE Spec2Model ----
(***************************************************************************)
(* A model of FxExtractor (src/extract_fx.cpp): the rewriter that turns    *)
(* f"..." / x"..." literals into calls of a formatting function.           *)
(*                                                                         *)
(* Text is a sequence of one-character strings.  Every member function of  *)
(* FxExtractor is an operator from the object's state (a record s) to the  *)
(* state after the call; an exception in flight is the field s.err, which  *)
(* every later statement skips, as stack unwinding does.  The main loop of *)
(* tryProcess is the state machine: one action per case of its switch.     *)
(***************************************************************************)
EXTENDS Integers, Sequences, FiniteSets, TLC

(***************************************************************************)
(* Characters and strings                                                  *)
(***************************************************************************)
NUL == "NUL"        \* the terminating byte c_str() ends every line with
NL == "\n"
QUOTE == "\""
APOS == "'"
BSLASH == "\\"

\* A TLA+ string as the sequence of its characters.
Chars(str) == [i \in 1..Len(str) |-> SubSeq(str, i, i)]

Letters == {"a","b","c","d","e","f","g","h","i","j","k","l","m","n","o","p","q","r","s","t","u",
            "v","w","x","y","z","A","B","C","D","E","F","G","H","I","J","K","L","M","N","O","P",
            "Q","R","S","T","U","V","W","X","Y","Z"}

\* std::isspace in the "C" locale
IsSpaceChar(c) == c \in {" ", "\t", "\n", "\r", "\f"}

\* std::isalpha in the "C" locale
IsAlphaChar(c) == c \in Letters

\* std::tolower on the two letters processStringLiteral compares with
ToLower(c) == CASE c = "F" -> "f" [] c = "X" -> "x" [] OTHER -> c

Digit(n) == CASE n = 0 -> "0" [] n = 1 -> "1" [] n = 2 -> "2" [] n = 3 -> "3" [] n = 4 -> "4"
              [] n = 5 -> "5" [] n = 6 -> "6" [] n = 7 -> "7" [] n = 8 -> "8" [] OTHER -> "9"

\* std::to_string / std::format("{}") of a non-negative int
RECURSIVE to_string(_)
to_string(n) == IF n < 10 THEN <<Digit(n)>> ELSE to_string(n \div 10) \o <<Digit(n % 10)>>

Spaces(n) == [i \in 1..n |-> " "]

(***************************************************************************)
(* Exceptions.  process() catches std::runtime_error only: EarlyEnd and    *)
(* ParsingError derive from it, std::out_of_range and std::length_error    *)
(* (std::logic_error) do not and leave process() as exceptions.            *)
(***************************************************************************)
NoErr == "none"
EarlyEnd == "EarlyEnd"
ParsingError == "ParsingError"
OutOfRange == "out_of_range"
LengthError == "length_error"
Diverges == "diverges"          \* the call never returns
Caught == {EarlyEnd, ParsingError}

\* How often the model follows a read past the end of the input before it
\* gives the run up as not returning.
MaxPastEnd == 2

\* throw: the exception type and the place (msg) that threw it
ThrowAt(s, e, m) == [s EXCEPT !.err = e, !.msg = m]
Throw(s, e) == ThrowAt(s, e, e)

(***************************************************************************)
(* The cursor                                                              *)
(***************************************************************************)
IndexOfNL(str) == IF \E i \in 1..Len(str) : str[i] = NL
                  THEN CHOOSE i \in 1..Len(str) : str[i] = NL /\ \A j \in 1..(i-1) : str[j] # NL
                  ELSE 0

\* getline() on a stream that is no longer good() extracts nothing and leaves
\* m_inLine as it is; m_lineNo is incremented and m_ptr rewound all the same.
getNextLine(s) ==
    IF s.eof
    THEN IF s.pastEnd >= MaxPastEnd
         THEN Throw(s, Diverges)
         ELSE [s EXCEPT !.lineNo = @ + 1, !.ptr = 0, !.pastEnd = @ + 1]
    ELSE LET k == IndexOfNL(s.inFile) IN
         IF k = 0
         THEN [s EXCEPT !.inLine = s.inFile, !.inFile = <<>>, !.eof = TRUE,
                        !.lineNo = @ + 1, !.ptr = 0,
                        !.lineStart = s.lineStart + Len(s.inLine)]
         ELSE [s EXCEPT !.inLine = SubSeq(s.inFile, 1, k),
                        !.inFile = SubSeq(s.inFile, k + 1, Len(s.inFile)),
                        !.lineNo = @ + 1, !.ptr = 0,
                        !.lineStart = s.lineStart + Len(s.inLine)]

peekAt(s, offset) == IF s.ptr + offset < Len(s.inLine) THEN s.inLine[s.ptr + offset + 1] ELSE NUL
peek(s) == peekAt(s, 0)

\* The character next() returns ...
nextChar(s) == IF peek(s) \in {NL, NUL} THEN NL ELSE peek(s)
\* ... and the state it leaves.
next(s) == IF peek(s) \in {NL, NUL} THEN getNextLine(s) ELSE [s EXCEPT !.ptr = @ + 1]

\* m_outLines += c, unless next() threw.  skel gets what m_outLines gets,
\* but for the literals and comments inside an expression (see processNested).
AppendOut(t, c) ==
    IF t.err # NoErr THEN t ELSE [t EXCEPT !.outLines = Append(@, c), !.skel = Append(@, c)]

xfer(s) == AppendOut(next(s), nextChar(s))

isspace(s) == IsSpaceChar(peek(s))

\* Offset in the whole input of the character under the cursor.
AbsPos(s) == s.lineStart + s.ptr

\* The text of makeLineDirective; std::string(col, ' ') with a negative col
\* asks for more than max_size() characters and throws std::length_error.
SourceFile == Chars("test")
LineDirectiveText(line, col) ==
    <<NL>> \o Chars("#line ") \o to_string(line) \o <<" ", QUOTE>> \o SourceFile \o <<QUOTE, NL>>
           \o Spaces(col)

(***************************************************************************)
(* Comments                                                                *)
(***************************************************************************)
RECURSIVE CPPCommentLoop(_, _)
CPPCommentLoop(s, backslash) ==
    IF s.err # NoErr THEN s
    ELSE IF ~(peek(s) # NL \/ backslash) THEN s
    ELSE IF peek(s) = NUL
         THEN IF backslash THEN Throw(s, EarlyEnd) ELSE s
    ELSE LET b == IF peek(s) = BSLASH THEN TRUE
                  ELSE IF peek(s) = NL \/ ~isspace(s) THEN FALSE
                  ELSE backslash
         IN CPPCommentLoop(xfer(s), b)

processCPPComment(s) == CPPCommentLoop(xfer(xfer(s)), FALSE)

RECURSIVE CCommentLoop(_)
CCommentLoop(s) ==
    IF s.err # NoErr THEN s
    ELSE IF ~(peek(s) # "*" \/ peekAt(s, 1) # "/") THEN xfer(xfer(s))
    ELSE IF peek(s) = NUL THEN Throw(s, EarlyEnd)
    ELSE CCommentLoop(xfer(s))

processCComment(s) == CCommentLoop(xfer(xfer(s)))

(***************************************************************************)
(* Literals and expression fields.  The locals of processLiteral (lit,     *)
(* prefix, fields, backslash) are the record l; a call that changes both   *)
(* the object and those locals maps a pair p = [s, l] to a pair.           *)
(***************************************************************************)
NoFx == "0"         \* fx == '\0'

RECURSIVE processExpression(_)
RECURSIVE processNested(_)
RECURSIVE ParenLoop(_, _)
RECURSIVE processStringLiteral(_)
RECURSIVE processLiteral(_, _, _, _, _)
RECURSIVE LiteralLoop(_, _, _, _)
RECURSIVE SpecLoop(_)

\* lit += c, unless next() threw
AppendLit(p, t, c) ==
    IF t.err # NoErr THEN [p EXCEPT !.s = t]
    ELSE [s |-> t, l |-> [p.l EXCEPT !.lit = Append(@, c)]]

\* toLit: lit += next()
toLit(p) == AppendLit(p, next(p.s), nextChar(p.s))

\* Field processExpressionField(): the pair of the state left and the Field
\* (apos: the offset in the input at which the expression starts).
processExpressionField(s) ==
    LET Ret(t) ==
            IF t.err # NoErr
            THEN [s |-> t,
                  field |-> [line |-> s.lineNo, col |-> s.ptr, expression |-> <<>>,
                             apos |-> AbsPos(s), skel |-> <<>>]]
            ELSE [s |-> [t EXCEPT !.outLines = s.outLines, !.skel = s.skel],
                  field |-> [line |-> s.lineNo, col |-> s.ptr, expression |-> t.outLines,
                             apos |-> AbsPos(s), skel |-> t.skel]]
    IN  Ret(processExpression([s EXCEPT !.outLines = <<>>, !.skel = <<>>]))

\* TernaryElse, were a branch that ends without its ':' let through.
TernaryElse_NoColon(a) ==
    IF a.err # NoErr THEN a
    ELSE IF peek(a) # ":" THEN a
    ELSE processExpression(xfer(a))

\* Lines 431-436: after the branch behind a '?', the ':' and the other branch.
TernaryElse(a) ==
    IF a.err # NoErr THEN a
    ELSE IF peek(a) # ":" THEN ThrowAt(a, ParsingError, "Mismatched ?")
    ELSE processExpression(xfer(a))

\* Lines 442-446: the ':' under the cursor starts a "::" the expression keeps.
IsScope(s) == peekAt(s, 1) = ":" /\ IsAlphaChar(peekAt(s, 2))

processExpression(s) ==
    LET Switch(t, c) ==
            IF t.err # NoErr THEN t
            ELSE CASE c = ")" -> ThrowAt(t, ParsingError, "Extraneous )")
                   [] c = "]" -> ThrowAt(t, ParsingError, "Extraneous ]")
                   [] c = "?" -> TernaryElse(processExpression(xfer(t)))
                   [] c = "}" -> t
                   [] c = ":" -> IF ~IsScope(t) THEN t ELSE processExpression(xfer(xfer(t)))
                   [] OTHER -> processExpression(xfer(t))
        AfterNested(t) == Switch(t, peek(t))
    IN  AfterNested(processNested(s))

Introducers == <<"(", "[", "{">>
Terminators == <<")", "]", "}">>
TerminatorOf(c) == CASE c = "(" -> ")" [] c = "[" -> "]" [] OTHER -> "}"

\* WrongCloser, were any closer but the one waited for passed over.
WrongCloser_Never(c, closer) == FALSE

\* Lines 513-516: c was passed while closer was waited for.
WrongCloser(c, closer) == c # closer /\ c \in {")", "]", "}"}

ParenLoop(s, closer) ==
    LET Passed(c, u) ==
            IF u.err # NoErr THEN u
            ELSE IF c = closer THEN u
            ELSE IF WrongCloser(c, closer) THEN ThrowAt(u, ParsingError, "Mismatched")
            ELSE ParenLoop(u, closer)
        AfterNested(t) == IF t.err # NoErr THEN t ELSE Passed(peek(t), xfer(t))
    IN  AfterNested(processNested(s))

processNestedParenthesis(s) == ParenLoop(xfer(s), TerminatorOf(peek(s)))

processCharLiteral(s) == processLiteral(s, FALSE, NoFx, <<>>, APOS)

\* A '/' that starts no comment leaves the switch by its last break with the
\* cursor where it was, and while (true) takes the same case again.
processNested(s) ==
    LET c == peek(s)
        \* the literal or comment just passed is no part of skel
        Passed(t) == [t EXCEPT !.skel = s.skel]
        AfterCPPComment(t) ==
            IF t.err # NoErr THEN t
            ELSE IF peek(t) = NUL
                 THEN ThrowAt(t, EarlyEnd, "ends with a // comment inside a expression-field")
                 ELSE processNested(t)
    IN  IF s.err # NoErr THEN s
        ELSE CASE c = NUL -> ThrowAt(s, EarlyEnd, "ends inside an expression-field")
               [] c \in {"(", "[", "{"} -> processNested(processNestedParenthesis(s))
               [] c = QUOTE -> processNested(Passed(processStringLiteral(s)))
               [] c = APOS -> processNested(Passed(processCharLiteral(s)))
               [] c = "/" ->
                    IF peekAt(s, 1) = "*" THEN processNested(Passed(processCComment(s)))
                    ELSE IF peekAt(s, 1) = "/" THEN AfterCPPComment(Passed(processCPPComment(s)))
                    ELSE ThrowAt(s, Diverges, "processNested")
               [] OTHER -> s

\* TrimPos, were the blanks after the '=' not skipped.
TrimPos_NoSkip(e, pos) == pos

\* The position the while loop of processExtractionField stops at.
RECURSIVE TrimPos(_, _)
TrimPos(e, pos) == IF pos > 0 /\ IsSpaceChar(e[pos]) THEN TrimPos(e, pos - 1) ELSE pos

\* A Field, with where the model found it: src is the expression as scanned,
\* skel the same without the literals and comments in it, apos its offset in
\* the input, nested tells a width/precision field, at is the index in lit of
\* the field's '{', from the length of lit when the field was met.
MakeField(f, arg, nested, at, from) ==
    [line |-> f.line, col |-> f.col, expression |-> arg, src |-> f.expression, skel |-> f.skel,
     apos |-> f.apos, nested |-> nested, at |-> at, from |-> from]

\* With an empty or all-blank expression pos is 0 and field.expression[pos - 1]
\* reads the byte before the buffer: s.ub tells whether that byte is '='.  If
\* it is, erase(pos - 1) is erase(npos) and throws std::out_of_range.
processExtractionField(p) ==
    LET FormatSpec(q) == IF peek(q.s) = ":" THEN SpecLoop(toLit(q)) ELSE q
        Push(r, t, lit, arg) ==
            FormatSpec([s |-> t,
                  l |-> [p.l EXCEPT !.lit = lit,
                                    !.fields = Append(@, MakeField(r.field, arg, FALSE, Len(lit),
                                                                     Len(p.l.lit)))]])
        Label(r, e, pos, debug, t) ==
            IF pos = 0 /\ debug THEN [p EXCEPT !.s = ThrowAt(t, OutOfRange, "erase")]
            ELSE IF debug THEN Push(r, t, Append(p.l.lit \o e, "{"), SubSeq(e, 1, pos - 1))
            ELSE Push(r, t, Append(p.l.lit, "{"), e)
        Trimmed(r, e, pos) ==
            IF pos = 0 THEN Label(r, e, pos, r.s.ub, [r.s EXCEPT !.ubRead = TRUE])
            ELSE Label(r, e, pos, e[pos] = "=", r.s)
        AfterField(r) ==
            IF r.s.err # NoErr THEN [p EXCEPT !.s = r.s]
            ELSE Trimmed(r, r.field.expression, TrimPos(r.field.expression, Len(r.field.expression)))
    IN  AfterField(processExpressionField(p.s))

\* NestedFieldEnds, were a nested field let end at a ':' too.
NestedFieldEnds_Any(s) == TRUE

\* Line 384: a nested expression-field has to end at its '}'.
NestedFieldEnds(s) == peek(s) = "}"

\* The format-spec loop.  At the end of the input the EarlyEnd is constructed
\* but not thrown, and the loop goes on to toLit().
SpecLoop(p) ==
    LET Push(q, r, f) == toLit([s |-> r.s, l |-> [q.l EXCEPT !.fields = Append(@, f)]])
        AfterField(q, r) ==
            IF r.s.err # NoErr THEN [q EXCEPT !.s = r.s]
            ELSE IF ~NestedFieldEnds(r.s)
                 THEN [q EXCEPT !.s = ThrowAt(r.s, ParsingError, "nested expression-field ending in :")]
            ELSE Push(q, r, MakeField(r.field, r.field.expression, TRUE, Len(q.l.lit), Len(p.l.lit)))
        Nested(q) == AfterField(q, processExpressionField(q.s))
    IN  IF p.s.err # NoErr THEN p
        ELSE IF peek(p.s) = "}" THEN p
        ELSE SpecLoop(IF peek(p.s) = "{" THEN Nested(toLit(p)) ELSE toLit(p))

\* PrefixStop, were only the end of the input looked for.
PrefixStop_NoLineEnd == {NUL}

\* Line 253: the characters a raw literal's prefix may not hold.
PrefixStop == {NUL, NL}

RECURSIVE PrefixLoop(_)
PrefixLoop(p) ==
    IF p.s.err # NoErr THEN p
    ELSE IF peek(p.s) = "(" THEN p
    ELSE IF peek(p.s) \in PrefixStop
         THEN [p EXCEPT !.s = ThrowAt(p.s, ParsingError, "ends in a raw literal prefix")]
    ELSE PrefixLoop([s |-> next(p.s), l |-> [p.l EXCEPT !.prefix = Append(@, nextChar(p.s))]])

\* LiteralStart, had processLiteral not put back the R that
\* processStringLiteral erased from the output.
LiteralStart_NoR(s, raw) ==
    LET p0 == [s |-> s, l |-> [lit |-> <<>>, prefix |-> <<>>, fields |-> <<>>, backslash |-> FALSE]]
        b == PrefixLoop(toLit(p0))
    IN  IF ~raw THEN toLit(p0)
        ELSE IF b.s.err # NoErr THEN b
        ELSE toLit([b EXCEPT !.l.lit = @ \o b.l.prefix])

\* if (raw) { lit += 'R'; toLit(); collect prefix; lit += prefix; toLit(); } else toLit();
LiteralStart(s, raw) ==
    LET p0 == [s |-> s, l |-> [lit |-> <<>>, prefix |-> <<>>, fields |-> <<>>, backslash |-> FALSE]]
        b == PrefixLoop(toLit([p0 EXCEPT !.l.lit = <<"R">>]))
    IN  IF ~raw THEN toLit(p0)
        ELSE IF b.s.err # NoErr THEN b
        ELSE toLit([b EXCEPT !.l.lit = @ \o b.l.prefix])

\* ) followed by the prefix and the terminator
RawEnds(s, prefix, terminator) ==
    /\ peek(s) = ")"
    /\ \A i \in 1..Len(prefix) : peekAt(s, i) = prefix[i]
    /\ peekAt(s, Len(prefix) + 1) = terminator

\* BraceStep, were a '}' with no '}' behind it let through.
BraceStep_NoCheck(p, fx) ==
    IF fx = NoFx THEN p
    ELSE IF peek(p.s) = "{"
         THEN LET s1 == next(p.s) IN
              IF peek(s1) # "{" THEN processExtractionField([p EXCEPT !.s = s1])
              ELSE [s |-> s1, l |-> [p.l EXCEPT !.lit = Append(@, "{")]]
    ELSE IF peek(p.s) = "}" THEN toLit(p)
    ELSE p

\* The brace handling of one character of an f/x literal (lines 306-319).
BraceStep(p, fx) ==
    IF fx = NoFx THEN p
    ELSE IF peek(p.s) = "{"
         THEN LET s1 == next(p.s) IN
              IF peek(s1) # "{" THEN processExtractionField([p EXCEPT !.s = s1])
              ELSE [s |-> s1, l |-> [p.l EXCEPT !.lit = Append(@, "{")]]
    ELSE IF peek(p.s) = "}"
         THEN LET q == toLit(p) IN
              IF q.s.err # NoErr THEN q
              ELSE IF peek(q.s) # "}"
                   THEN [q EXCEPT !.s = ThrowAt(q.s, ParsingError, "Right brace characters must be doubled")]
              ELSE q
    ELSE p

\* The rest of one iteration, after the test for the literal's end.
LiteralRest(p, raw, fx, terminator) ==
    LET Regular(q) == IF q.s.err # NoErr THEN q ELSE LiteralLoop(toLit(q), raw, fx, terminator)
    IN  Regular(BraceStep(p, fx))

\* while (true) of processLiteral; the value is the state at the break.
LiteralLoop(p, raw, fx, terminator) ==
    LET s == p.s
        c == peek(s)
        RawEnd(q) == [s |-> [q.s EXCEPT !.ptr = @ + Len(p.l.prefix)],
                      l |-> [q.l EXCEPT !.lit = @ \o p.l.prefix]]
        \* what the tests of lines 268-304 do: leave the loop, throw, or go on
        \* to line 306 with backslash as they set it
        way == IF raw
               THEN IF c = NUL THEN "EarlyEndRaw"
                    ELSE IF RawEnds(s, p.l.prefix, terminator) THEN "RawEnd"
                    ELSE "keep"
               ELSE IF c = BSLASH THEN "toggle"
               ELSE IF c = terminator THEN (IF p.l.backslash THEN "clear" ELSE "break")
               ELSE IF c = NUL THEN "EarlyEnd"
               ELSE IF ~p.l.backslash /\ c = NL THEN "LineEnd"
               ELSE IF c = NL \/ ~isspace(s) THEN "clear"
               ELSE "keep"
        backslash == CASE way = "toggle" -> ~p.l.backslash
                       [] way = "clear" -> FALSE
                       [] OTHER -> p.l.backslash
    IN  IF s.err # NoErr THEN p
        ELSE CASE way = "EarlyEndRaw" -> [p EXCEPT !.s = ThrowAt(s, EarlyEnd, "ends in raw literal")]
               [] way = "RawEnd" -> RawEnd(toLit(p))
               [] way = "break" -> p
               [] way = "EarlyEnd" ->
                    [p EXCEPT !.s = ThrowAt(s, EarlyEnd, "ends inside a char or string literal")]
               [] way = "LineEnd" ->
                    [p EXCEPT !.s = ThrowAt(s, ParsingError, "line ends inside a char or string literal")]
               [] OTHER -> LiteralRest([p EXCEPT !.l.backslash = backslash], raw, fx, terminator)

\* makeLineDirective appended to m_outLines
makeLineDirective(s, line, col) ==
    IF ~s.ld THEN s
    ELSE IF col < 0 THEN ThrowAt(s, LengthError, "makeLineDirective")
    ELSE [s EXCEPT !.outLines = @ \o LineDirectiveText(line, col)]

\* for (auto& field : fields), from the i-th on
RECURSIVE EmitFields(_, _, _)
EmitFields(s, fields, i) ==
    LET Arg(t) ==
            IF t.err # NoErr THEN t
            ELSE EmitFields([t EXCEPT !.outLines = @ \o <<",", " ">> \o fields[i].expression],
                            fields, i + 1)
    IN  IF s.err # NoErr \/ i > Len(fields) THEN s
        ELSE Arg(makeLineDirective(s, fields[i].line, fields[i].col - 2))

\* The name written before the '(' of an f-literal
CallName(name, n) ==
    IF name[Len(name)] = "*"
    THEN SubSeq(name, 1, Len(name) - 1) \o <<"<">> \o to_string(n) \o <<">">>
    ELSE name

\* EmitLiteral, were the closing parenthesis written after an x-literal too.
EmitLiteral_CloseAll(s, l, fx, encoding, name) ==
    LET head == IF fx = "f" THEN CallName(name, Len(l.fields)) \o <<"(">> \o encoding ELSE <<>>
        Close(t) == IF t.err # NoErr THEN t ELSE [t EXCEPT !.outLines = Append(@, ")")]
    IN  IF fx = NoFx THEN [s EXCEPT !.outLines = @ \o l.lit]
        ELSE Close(EmitFields([s EXCEPT !.outLines = @ \o head \o l.lit], l.fields, 1))

\* Lines 326-348: the literal, and for an f/x literal its arguments, appended
\* to m_outLines.
EmitLiteral(s, l, fx, encoding, name) ==
    LET head == IF fx = "f" THEN CallName(name, Len(l.fields)) \o <<"(">> \o encoding ELSE <<>>
        Close(t) ==
            IF t.err # NoErr THEN t
            ELSE IF fx = "f" THEN [t EXCEPT !.outLines = Append(@, ")")]
            ELSE t
    IN  IF fx = NoFx THEN [s EXCEPT !.outLines = @ \o l.lit]
        ELSE Close(EmitFields([s EXCEPT !.outLines = @ \o head \o l.lit], l.fields, 1))

\* What the model remembers of a finished literal: qpos is the offset in the
\* input of its opening quote, emitted the text it added to m_outLines.
LiteralEvent(s, t, l, raw, fx, encoding, terminator) ==
    [raw |-> raw, fx |-> fx, encoding |-> encoding, terminator |-> terminator,
     prefix |-> l.prefix, lit |-> l.lit, fields |-> l.fields, qpos |-> AbsPos(s),
     emitted |-> SubSeq(t.outLines, Len(s.outLines) + 1, Len(t.outLines))]

processLiteral(s, raw, fx, encoding, terminator) ==
    LET Done(p3, t) ==
            IF t.err # NoErr THEN t
            ELSE [t EXCEPT !.lits = Append(@, LiteralEvent(s, t, p3.l, raw, fx, encoding, terminator))]
        Emit(p3) ==
            IF p3.s.err # NoErr THEN p3.s
            ELSE Done(p3, EmitLiteral(p3.s, p3.l, fx, encoding, s.fn))
        \* Transfer the ending quote
        Quote(p2) == IF p2.s.err # NoErr THEN p2.s ELSE Emit(toLit(p2))
        Contents(p1) == IF p1.s.err # NoErr THEN p1.s ELSE Quote(LiteralLoop(p1, raw, fx, terminator))
    IN  IF s.err # NoErr THEN s ELSE Contents(LiteralStart(s, raw))

\* The prefix letters are looked for at the end of m_outLines.
processStringLiteral(s) ==
    LET out == s.outLines
        n == Len(out)
        raw == n > 0 /\ out[n] = "R"
        p1 == IF raw THEN n - 1 ELSE n
        c == IF p1 > 0 THEN ToLower(out[p1]) ELSE NoFx
        fx == IF c \in {"f", "x"} THEN c ELSE NoFx
        p2 == IF fx # NoFx THEN p1 - 1 ELSE p1
        one == fx = "f" /\ p2 > 0 /\ out[p2] \in {"L", "U", "u"}
        two == fx = "f" /\ p2 > 1 /\ out[p2] = "8" /\ out[p2 - 1] = "u"
        encoding == IF one THEN <<out[p2]>> ELSE IF two THEN <<"u", "8">> ELSE <<>>
        pos == IF one THEN p2 - 1 ELSE IF two THEN p2 - 2 ELSE p2
    IN  IF s.err # NoErr THEN s
        ELSE processLiteral([s EXCEPT !.outLines = SubSeq(out, 1, pos)], raw, fx, encoding, QUOTE)

(***************************************************************************)
(* The state machine: process() and the main loop of tryProcess            *)
(***************************************************************************)
VARIABLES
    input,              \* what the input stream held at construction
    m_inFile,           \* the characters the stream has not given yet
    eofbit,             \* m_inFile.eof()
    m_inLine, m_ptr, m_lineNo,
    m_outFile, m_outLines,
    m_lineDirectives, m_functionName,
    saved, continuation, first,     \* the locals of tryProcess
    pc,                 \* where process() is
    err, msg,           \* the exception that ended tryProcess
    lineStart,          \* offset in input of m_inLine
    pastEnd,            \* reads of a line after the end of the input
    lits,               \* the literals passed, in the order they ended
    ubRead,             \* field.expression[pos - 1] was read with pos = 0
    pass,               \* 1, or 2 when the input is what a former run wrote
    original            \* in pass 2, the input of pass 1

vars == <<input, m_inFile, eofbit, m_inLine, m_ptr, m_lineNo, m_outFile, m_outLines,
          m_lineDirectives, m_functionName, saved, continuation, first, pc, err, msg,
          lineStart, pastEnd, lits, ubRead, pass, original>>

\* The object as the operators above take it; ub is the byte a read before
\* the expression's buffer finds ('=' or not).
Obj(ub) ==
    [inFile |-> m_inFile, eof |-> eofbit, inLine |-> m_inLine, ptr |-> m_ptr, lineNo |-> m_lineNo,
     outLines |-> m_outLines, ld |-> m_lineDirectives, fn |-> m_functionName,
     err |-> NoErr, msg |-> "", lineStart |-> lineStart, pastEnd |-> pastEnd, lits |-> lits,
     ub |-> ub, ubRead |-> FALSE, skel |-> <<>>]

\* Where process() is after a call that left the object as r.
PcAfter(r, normal) ==
    IF r.err = NoErr THEN normal
    ELSE IF r.err \in Caught THEN "failed"          \* process() returns false
    ELSE IF r.err = Diverges THEN "hung"            \* process() does not return
    ELSE "aborted"                                  \* the exception leaves process()

SetObj(r, normal) ==
    /\ m_inFile' = r.inFile
    /\ eofbit' = r.eof
    /\ m_inLine' = r.inLine
    /\ m_ptr' = r.ptr
    /\ m_lineNo' = r.lineNo
    /\ m_outLines' = r.outLines
    /\ err' = r.err
    /\ msg' = r.msg
    /\ lineStart' = r.lineStart
    /\ pastEnd' = r.pastEnd
    /\ lits' = r.lits
    /\ ubRead' = (ubRead \/ r.ubRead)
    /\ pc' = PcAfter(r, normal)

Cur == Obj(FALSE)

\* tryProcess up to its loop
Start ==
    /\ pc = "start"
    /\ SetObj(getNextLine(Cur), "outer")
    /\ m_outFile' = IF m_lineDirectives THEN LineDirectiveText(1, 0) ELSE <<>>
    /\ saved' = m_lineDirectives
    /\ UNCHANGED <<pass, original>>
    /\ UNCHANGED <<input, m_lineDirectives, m_functionName, continuation, first>>

\* while (peek() != '\0'), and the return of process()
OuterLoop ==
    /\ pc = "outer"
    /\ IF peek(Cur) # NUL
       THEN pc' = "inner" /\ continuation' = FALSE /\ first' = TRUE
       ELSE pc' = "done" /\ UNCHANGED <<continuation, first>>
    /\ UNCHANGED <<pass, original>>
    /\ UNCHANGED <<input, m_inFile, eofbit, m_inLine, m_ptr, m_lineNo, m_outFile, m_outLines,
                   m_lineDirectives, m_functionName, saved, err, msg, lineStart, pastEnd, lits,
                   ubRead>>

InLine == pc = "inner" /\ peek(Cur) \notin {NL, NUL}

\* case '"'
CaseStringLiteral ==
    /\ InLine /\ peek(Cur) = QUOTE
    /\ LET Returned(r, ub) == (ub => r.ubRead) /\ SetObj(r, "inner") IN
       \E ub \in BOOLEAN : Returned(processStringLiteral(Obj(ub)), ub)
    /\ UNCHANGED <<pass, original>>
    /\ UNCHANGED <<input, m_outFile, m_lineDirectives, m_functionName, saved, continuation, first>>

\* case '\''
CaseCharLiteral ==
    /\ InLine /\ peek(Cur) = APOS
    /\ SetObj(processCharLiteral(Cur), "inner")
    /\ UNCHANGED <<pass, original>>
    /\ UNCHANGED <<input, m_outFile, m_lineDirectives, m_functionName, saved, continuation, first>>

\* case '/' with a '*' behind it
CaseCComment ==
    /\ InLine /\ peek(Cur) = "/" /\ peekAt(Cur, 1) = "*"
    /\ SetObj(processCComment(Cur), "inner")
    /\ UNCHANGED <<pass, original>>
    /\ UNCHANGED <<input, m_outFile, m_lineDirectives, m_functionName, saved, continuation, first>>

\* case '/' with a '/' behind it
CaseCPPComment ==
    /\ InLine /\ peek(Cur) = "/" /\ peekAt(Cur, 1) = "/"
    /\ SetObj(processCPPComment(Cur), "inner")
    /\ UNCHANGED <<pass, original>>
    /\ UNCHANGED <<input, m_outFile, m_lineDirectives, m_functionName, saved, continuation, first>>

\* case '\\', and case '/' falling through to it
CaseBackslash ==
    /\ InLine
    /\ peek(Cur) = BSLASH \/ (peek(Cur) = "/" /\ peekAt(Cur, 1) \notin {"*", "/"})
    /\ continuation' = TRUE
    /\ SetObj(xfer(Cur), "inner")
    /\ UNCHANGED <<pass, original>>
    /\ UNCHANGED <<input, m_outFile, m_lineDirectives, m_functionName, saved, first>>

\* case '#'
CaseHash ==
    /\ InLine /\ peek(Cur) = "#"
    /\ m_lineDirectives' = IF first THEN FALSE ELSE m_lineDirectives
    /\ SetObj(xfer(Cur), "inner")
    /\ UNCHANGED <<pass, original>>
    /\ UNCHANGED <<input, m_outFile, m_functionName, saved, continuation, first>>

\* default
CaseDefault ==
    /\ InLine /\ peek(Cur) \notin {QUOTE, APOS, "/", BSLASH, "#"}
    /\ IF ~isspace(Cur)
       THEN first' = FALSE /\ continuation' = FALSE
       ELSE UNCHANGED <<first, continuation>>
    /\ SetObj(xfer(Cur), "inner")
    /\ UNCHANGED <<pass, original>>
    /\ UNCHANGED <<input, m_outFile, m_lineDirectives, m_functionName, saved>>

\* FlushedLine, were the line end never written.
FlushedLine_NoLineEnd(staged, atEnd, c) == staged

\* Lines 96-98: what a line end writes to m_outFile: the staged text, and
\* the character next() returns unless the input has ended.
FlushedLine(staged, atEnd, c) == IF atEnd THEN staged ELSE Append(staged, c)

\* Lines 96-102: the line is flushed, with its line end unless the input ended
\* without one.
EndOfLine ==
    /\ pc = "inner" /\ peek(Cur) \in {NL, NUL}
    /\ LET Flushed(r) ==
               /\ SetObj([r EXCEPT !.outLines = <<>>], "outer")
               /\ m_outFile' = IF r.err # NoErr THEN m_outFile \o m_outLines
                               ELSE m_outFile \o FlushedLine(m_outLines, eofbit, nextChar(Cur))
       IN  Flushed(IF eofbit THEN Cur ELSE next(Cur))
    /\ m_lineDirectives' = IF continuation THEN m_lineDirectives ELSE saved
    /\ UNCHANGED <<pass, original>>
    /\ UNCHANGED <<input, m_functionName, saved, continuation, first>>

\* The program is run once more, with the same options, on what a run with
\* line directives disabled wrote: a new FxExtractor on a new stream.
Again ==
    /\ pc = "done" /\ pass = 1 /\ ~saved
    /\ pass' = 2
    /\ original' = input
    /\ input' = m_outFile
    /\ m_inFile' = m_outFile
    /\ eofbit' = FALSE
    /\ m_inLine' = <<>>
    /\ m_ptr' = 0
    /\ m_lineNo' = 0
    /\ m_outFile' = <<>>
    /\ m_outLines' = <<>>
    /\ m_lineDirectives' = saved
    /\ continuation' = FALSE
    /\ first' = TRUE
    /\ pc' = "start"
    /\ err' = NoErr
    /\ msg' = ""
    /\ lineStart' = 0
    /\ pastEnd' = 0
    /\ lits' = <<>>
    /\ ubRead' = FALSE
    /\ UNCHANGED <<m_functionName, saved>>

Next ==
    \/ Start
    \/ OuterLoop
    \/ CaseStringLiteral
    \/ CaseCharLiteral
    \/ CaseCComment
    \/ CaseCPPComment
    \/ CaseBackslash
    \/ CaseHash
    \/ CaseDefault
    \/ EndOfLine
    \/ Again

(***************************************************************************)
(* The runs checked: the source's own test table, and families of inputs   *)
(* built from a frame and every text over a small alphabet.                *)
(***************************************************************************)
\* The table tests[] of the source: input, expected output, whether process()
\* is to succeed, and whether line directives are on.  The long example from
\* the readme (line 746) is left out: its one expression of 200 characters
\* nests the operators deeper than they can be evaluated.
tests == <<
    [input |-> "",
     truth |-> "",
     expectOk |-> TRUE, lineDirectives |-> FALSE],
    [input |-> "x = y",
     truth |-> "x = y",
     expectOk |-> TRUE, lineDirectives |-> FALSE],
    [input |-> "x = y\n",
     truth |-> "x = y\n",
     expectOk |-> TRUE, lineDirectives |-> FALSE],
    [input |-> "#x = y\n",
     truth |-> "#x = y\n",
     expectOk |-> TRUE, lineDirectives |-> FALSE],
    [input |-> "#x = y\\ \n\" c\"\\n",
     truth |-> "#x = y\\ \n\" c\"\\n",
     expectOk |-> TRUE, lineDirectives |-> FALSE],
    [input |-> "#x = y\\ \nfoo \\\n\" c\"\\n",
     truth |-> "#x = y\\ \nfoo \\\n\" c\"\\n",
     expectOk |-> TRUE, lineDirectives |-> FALSE],
    [input |-> "xx // foo",
     truth |-> "xx // foo",
     expectOk |-> TRUE, lineDirectives |-> FALSE],
    [input |-> "xx // foo \\ \nc \"",
     truth |-> "xx // foo \\ \nc \"",
     expectOk |-> TRUE, lineDirectives |-> FALSE],
    [input |-> "xx /* \" */ yy",
     truth |-> "xx /* \" */ yy",
     expectOk |-> TRUE, lineDirectives |-> FALSE],
    [input |-> "xx /* ss\n \" */ yy",
     truth |-> "xx /* ss\n \" */ yy",
     expectOk |-> TRUE, lineDirectives |-> FALSE],
    [input |-> "xx /* ss",
     truth |-> "xx /* ss",
     expectOk |-> FALSE, lineDirectives |-> FALSE],
    [input |-> "xx /* ss\n \"/ yy *",
     truth |-> "xx /* ss\n \"/ yy *",
     expectOk |-> FALSE, lineDirectives |-> FALSE],
    [input |-> "xx //  \\",
     truth |-> "xx //  \\",
     expectOk |-> FALSE, lineDirectives |-> FALSE],
    [input |-> "",
     truth |-> "",
     expectOk |-> TRUE, lineDirectives |-> FALSE],
    [input |-> "\"\"",
     truth |-> "\"\"",
     expectOk |-> TRUE, lineDirectives |-> FALSE],
    [input |-> "\"foo.bar\"",
     truth |-> "\"foo.bar\"",
     expectOk |-> TRUE, lineDirectives |-> FALSE],
    [input |-> "\"foo\\\"bar\"",
     truth |-> "\"foo\\\"bar\"",
     expectOk |-> TRUE, lineDirectives |-> FALSE],
    [input |-> "\"foo\\\\bar\"",
     truth |-> "\"foo\\\\bar\"",
     expectOk |-> TRUE, lineDirectives |-> FALSE],
    [input |-> "\"foo\\\n\\\"bar\"",
     truth |-> "\"foo\\\n\\\"bar\"",
     expectOk |-> TRUE, lineDirectives |-> FALSE],
    [input |-> "foo \"",
     truth |-> "foo \"",
     expectOk |-> FALSE, lineDirectives |-> FALSE],
    [input |-> "foo\n\"",
     truth |-> "foo\n\"",
     expectOk |-> FALSE, lineDirectives |-> FALSE],
    [input |-> "\"foo\\ \nbar",
     truth |-> "\"foo\\ \nbar",
     expectOk |-> FALSE, lineDirectives |-> FALSE],
    [input |-> "\"foo\\",
     truth |-> "\"foo\\",
     expectOk |-> FALSE, lineDirectives |-> FALSE],
    [input |-> "R\"()\"",
     truth |-> "R\"()\"",
     expectOk |-> TRUE, lineDirectives |-> FALSE],
    [input |-> "R\"xy()xy\"",
     truth |-> "R\"xy()xy\"",
     expectOk |-> TRUE, lineDirectives |-> FALSE],
    [input |-> "R\"xy(foo.bar)xy\"",
     truth |-> "R\"xy(foo.bar)xy\"",
     expectOk |-> TRUE, lineDirectives |-> FALSE],
    [input |-> "R\"xy(foo\".bar)xy\"",
     truth |-> "R\"xy(foo\".bar)xy\"",
     expectOk |-> TRUE, lineDirectives |-> FALSE],
    [input |-> "R\"xy(foo\\\"bar)xy\"",
     truth |-> "R\"xy(foo\\\"bar)xy\"",
     expectOk |-> TRUE, lineDirectives |-> FALSE],
    [input |-> "R\"xy(foo\\\\bar)xy\"",
     truth |-> "R\"xy(foo\\\\bar)xy\"",
     expectOk |-> TRUE, lineDirectives |-> FALSE],
    [input |-> "R\"xy(foo)\"bar)yx\"fum)xy\"",
     truth |-> "R\"xy(foo)\"bar)yx\"fum)xy\"",
     expectOk |-> TRUE, lineDirectives |-> FALSE],
    [input |-> "R\"xy(foo\n\"bar)xy\"",
     truth |-> "R\"xy(foo\n\"bar)xy\"",
     expectOk |-> TRUE, lineDirectives |-> FALSE],
    [input |-> "R\"xy(foo\n)xy\"",
     truth |-> "R\"xy(foo\n)xy\"",
     expectOk |-> TRUE, lineDirectives |-> FALSE],
    [input |-> "R\"abc",
     truth |-> "R\"abc",
     expectOk |-> FALSE, lineDirectives |-> FALSE],
    [input |-> "R\"abc\nd)",
     truth |-> "R\"abc\nd)",
     expectOk |-> FALSE, lineDirectives |-> FALSE],
    [input |-> "foo R\"xy(",
     truth |-> "foo R\"xy(",
     expectOk |-> FALSE, lineDirectives |-> FALSE],
    [input |-> "foo\nR\"(xy)z\"",
     truth |-> "foo\nR\"(xy)z\"",
     expectOk |-> FALSE, lineDirectives |-> FALSE],
    [input |-> "foo R\"(xy)z\"",
     truth |-> "foo R\"(xy)z\"",
     expectOk |-> FALSE, lineDirectives |-> FALSE],
    [input |-> "foo R\"w(xy)z\")\"",
     truth |-> "foo R\"w(xy)z\")\"",
     expectOk |-> FALSE, lineDirectives |-> FALSE],
    [input |-> "R\"(foo \nbar",
     truth |-> "R\"(foo \nbar",
     expectOk |-> FALSE, lineDirectives |-> FALSE],
    [input |-> "R\"xy(foo \nbar",
     truth |-> "R\"xy(foo \nbar",
     expectOk |-> FALSE, lineDirectives |-> FALSE],
    [input |-> "R\"xy(foo \nbar)yx\"",
     truth |-> "R\"xy(foo \nbar)yx\"",
     expectOk |-> FALSE, lineDirectives |-> FALSE],
    [input |-> "'x'",
     truth |-> "'x'",
     expectOk |-> TRUE, lineDirectives |-> FALSE],
    [input |-> "'\\''",
     truth |-> "'\\''",
     expectOk |-> TRUE, lineDirectives |-> FALSE],
    [input |-> "'\\\\'",
     truth |-> "'\\\\'",
     expectOk |-> TRUE, lineDirectives |-> FALSE],
    [input |-> "'\"'",
     truth |-> "'\"'",
     expectOk |-> TRUE, lineDirectives |-> FALSE],
    [input |-> "'\"and\"'",
     truth |-> "'\"and\"'",
     expectOk |-> TRUE, lineDirectives |-> FALSE],
    [input |-> "'\\u1234'",
     truth |-> "'\\u1234'",
     expectOk |-> TRUE, lineDirectives |-> FALSE],
    [input |-> "'\\x0A'",
     truth |-> "'\\x0A'",
     expectOk |-> TRUE, lineDirectives |-> FALSE],
    [input |-> "'\\\nx'",
     truth |-> "'\\\nx'",
     expectOk |-> TRUE, lineDirectives |-> FALSE],
    [input |-> "'x",
     truth |-> "'x",
     expectOk |-> FALSE, lineDirectives |-> FALSE],
    [input |-> "'\\",
     truth |-> "'\\",
     expectOk |-> FALSE, lineDirectives |-> FALSE],
    [input |-> "f\"The number is: {3 * 5}\"",
     truth |-> "std::format(\"The number is: {}\", 3 * 5)",
     expectOk |-> TRUE, lineDirectives |-> FALSE],
    [input |-> "x\"The numbers are: {a} and {b}\"",
     truth |-> "\"The numbers are: {} and {}\", a, b",
     expectOk |-> TRUE, lineDirectives |-> FALSE],
    [input |-> "x\"The numbers are: {a:x} and {b:5}\"",
     truth |-> "\"The numbers are: {:x} and {:5}\", a, b",
     expectOk |-> TRUE, lineDirectives |-> FALSE],
    [input |-> "f\"The number is: {a:{b}}\"",
     truth |-> "std::format(\"The number is: {:{}}\", a, b)",
     expectOk |-> TRUE, lineDirectives |-> FALSE],
    [input |-> "f\"The number is: {a:x{b}d}\"",
     truth |-> "std::format(\"The number is: {:x{}d}\", a, b)",
     expectOk |-> TRUE, lineDirectives |-> FALSE],
    [input |-> "f\"The number is: {a ? b : c :4d}\"",
     truth |-> "std::format(\"The number is: {:4d}\", a ? b : c )",
     expectOk |-> TRUE, lineDirectives |-> FALSE],
    [input |-> "f\"The number is: {a ? b ? c : d : c :4d}\"",
     truth |-> "std::format(\"The number is: {:4d}\", a ? b ? c : d : c )",
     expectOk |-> TRUE, lineDirectives |-> FALSE],
    [input |-> "f\"The number is: {a ? b : c ? d : e :4d}\"",
     truth |-> "std::format(\"The number is: {:4d}\", a ? b : c ? d : e )",
     expectOk |-> TRUE, lineDirectives |-> FALSE],
    [input |-> "f\"The number is: {MyType{}}\"",
     truth |-> "std::format(\"The number is: {}\", MyType{})",
     expectOk |-> TRUE, lineDirectives |-> FALSE],
    [input |-> "f\"Just braces {{a}} {a}\"",
     truth |-> "std::format(\"Just braces {{a}} {}\", a)",
     expectOk |-> TRUE, lineDirectives |-> FALSE],
    [input |-> "f\"Use colon colon {std::rand()}\"",
     truth |-> "std::format(\"Use colon colon {}\", std::rand())",
     expectOk |-> TRUE, lineDirectives |-> FALSE],
    [input |-> "f\"Use colon colon {std::rand():fmt}\"",
     truth |-> "std::format(\"Use colon colon {:fmt}\", std::rand())",
     expectOk |-> TRUE, lineDirectives |-> FALSE],
    [input |-> "f\"The number is: {3\n* 5}\"",
     truth |-> "std::format(\"The number is: {}\", 3\n* 5)",
     expectOk |-> TRUE, lineDirectives |-> FALSE],
    [input |-> "f\"Construction {MyClass{1, 2}}\"",
     truth |-> "std::format(\"Construction {}\", MyClass{1, 2})",
     expectOk |-> TRUE, lineDirectives |-> FALSE],
    [input |-> "f\"Construction {a * (b + c)}\"",
     truth |-> "std::format(\"Construction {}\", a * (b + c))",
     expectOk |-> TRUE, lineDirectives |-> FALSE],
    [input |-> "f\"Construction {a * (b + p[3])}\"",
     truth |-> "std::format(\"Construction {}\", a * (b + p[3]))",
     expectOk |-> TRUE, lineDirectives |-> FALSE],
    [input |-> "f\"Construction {a * (b + c}\"",
     truth |-> "f\"Construction {a * (b + c}\"",
     expectOk |-> FALSE, lineDirectives |-> FALSE],
    [input |-> "f\"Construction {a * (b + c]}\"",
     truth |-> "f\"Construction {a * (b + c]}\"",
     expectOk |-> FALSE, lineDirectives |-> FALSE],
    [input |-> "f\"Construction {a * [b + c}}\"",
     truth |-> "f\"Construction {a * [b + c}}\"",
     expectOk |-> FALSE, lineDirectives |-> FALSE],
    [input |-> "f\"The number is: {3 /* comment */ * 5}\"",
     truth |-> "std::format(\"The number is: {}\", 3 /* comment */ * 5)",
     expectOk |-> TRUE, lineDirectives |-> FALSE],
    [input |-> "f\"The number is: {3 /* : ignored */ * 5:fmt}\"",
     truth |-> "std::format(\"The number is: {:fmt}\", 3 /* : ignored */ * 5)",
     expectOk |-> TRUE, lineDirectives |-> FALSE],
    [input |-> "f\"The number is: {3 /* } ignored */ * 5:f{m}t}\"",
     truth |-> "std::format(\"The number is: {:f{}t}\", 3 /* } ignored */ * 5, m)",
     expectOk |-> TRUE, lineDirectives |-> FALSE],
    [input |-> "f\"The number is: {3 /* comment \\\ncontinues */ * 5}\"",
     truth |-> "std::format(\"The number is: {}\", 3 /* comment \\\ncontinues */ * 5)",
     expectOk |-> TRUE, lineDirectives |-> FALSE],
    [input |-> "f\"The number is: {3 /* comment\ncontinues */ * 5}\"",
     truth |-> "std::format(\"The number is: {}\", 3 /* comment\ncontinues */ * 5)",
     expectOk |-> TRUE, lineDirectives |-> FALSE],
    [input |-> "xR\"(The numbers are: {a} and {b})\"",
     truth |-> "R\"(The numbers are: {} and {})\", a, b",
     expectOk |-> TRUE, lineDirectives |-> FALSE],
    [input |-> "xR\"xy(The numbers are: {a} and {b})xy\"",
     truth |-> "R\"xy(The numbers are: {} and {})xy\", a, b",
     expectOk |-> TRUE, lineDirectives |-> FALSE],
    [input |-> "fR\"(The number is: {3 /* comment\ncontinues */ * 5})\"",
     truth |-> "std::format(R\"(The number is: {})\", 3 /* comment\ncontinues */ * 5)",
     expectOk |-> TRUE, lineDirectives |-> FALSE],
    [input |-> "fR\"xy(The number is: {3 /* comment\nxy) )\" yx)\" continues */ * 5})xy\"",
     truth |-> "std::format(R\"xy(The number is: {})xy\", 3 /* comment\nxy) )\" yx)\" continues */ * 5)",
     expectOk |-> TRUE, lineDirectives |-> FALSE],
    [input |-> "f\"The number is: {3 // comment\n * 5}\"",
     truth |-> "std::format(\"The number is: {}\", 3 // comment\n * 5)",
     expectOk |-> TRUE, lineDirectives |-> FALSE],
    [input |-> "fR\"xy(The number is: {3 // comment\n * 5})xy\"",
     truth |-> "std::format(R\"xy(The number is: {})xy\", 3 // comment\n * 5)",
     expectOk |-> TRUE, lineDirectives |-> FALSE],
    [input |-> "f\"The number is: {3 // comment \\\nfoo\n * 5}\"",
     truth |-> "std::format(\"The number is: {}\", 3 // comment \\\nfoo\n * 5)",
     expectOk |-> TRUE, lineDirectives |-> FALSE],
    [input |-> "fR\"xy(The number is: {3 // comment\n * 5})xy\"",
     truth |-> "std::format(R\"xy(The number is: {})xy\", 3 // comment\n * 5)",
     expectOk |-> TRUE, lineDirectives |-> FALSE],
    [input |-> "fR\"xy(The number is: {3 // comment \\\nfum\n * 5})xy\"",
     truth |-> "std::format(R\"xy(The number is: {})xy\", 3 // comment \\\nfum\n * 5)",
     expectOk |-> TRUE, lineDirectives |-> FALSE],
    [input |-> "f\"Just braces {{} {a}\"",
     truth |-> "f\"Just braces {{} {a}\"",
     expectOk |-> FALSE, lineDirectives |-> FALSE],
    [input |-> "f\"The number is: {a:x{b:x}d}\"",
     truth |-> "f\"The number is: {a:x{b:x}d}\"",
     expectOk |-> FALSE, lineDirectives |-> FALSE],
    [input |-> "f\"The number is: {3 * 5\"",
     truth |-> "f\"The number is: {3 * 5\"",
     expectOk |-> FALSE, lineDirectives |-> FALSE],
    [input |-> "fR\"xy(The number is: {3 * 5)xy\"",
     truth |-> "fR\"xy(The number is: {3 * 5)xy\"",
     expectOk |-> FALSE, lineDirectives |-> FALSE],
    [input |-> "f\"The number is: {3 * 5: a\"",
     truth |-> "f\"The number is: {3 * 5: a\"",
     expectOk |-> FALSE, lineDirectives |-> FALSE],
    [input |-> "fR\"xy(The number is: {3 * 5: a)xy\"",
     truth |-> "fR\"xy(The number is: {3 * 5: a)xy\"",
     expectOk |-> FALSE, lineDirectives |-> FALSE],
    [input |-> "f\"The number is: {3 * 5:{3\"",
     truth |-> "f\"The number is: {3 * 5:{3\"",
     expectOk |-> FALSE, lineDirectives |-> FALSE],
    [input |-> "fR\"xy(The number is: {3 * 5:{3)xy\"",
     truth |-> "fR\"xy(The number is: {3 * 5:{3)xy\"",
     expectOk |-> FALSE, lineDirectives |-> FALSE],
    [input |-> "f\"The number is: {3 * 5 /*comment \"",
     truth |-> "f\"The number is: {3 * 5 /*comment \"",
     expectOk |-> FALSE, lineDirectives |-> FALSE],
    [input |-> "fR\"x(The number is: {3 * 5 /*comment )x\"",
     truth |-> "fR\"x(The number is: {3 * 5 /*comment )x\"",
     expectOk |-> FALSE, lineDirectives |-> FALSE],
    [input |-> "f\"The number is: {3 * 5 /*comment\\",
     truth |-> "f\"The number is: {3 * 5 /*comment\\",
     expectOk |-> FALSE, lineDirectives |-> FALSE],
    [input |-> "f\"The number is: {3 // comment * 5}\"",
     truth |-> "f\"The number is: {3 // comment * 5}\"",
     expectOk |-> FALSE, lineDirectives |-> FALSE],
    [input |-> "f\"The number is: {3 // comment \\\n * 5}\"",
     truth |-> "f\"The number is: {3 // comment \\\n * 5}\"",
     expectOk |-> FALSE, lineDirectives |-> FALSE],
    [input |-> "f\"The number is: {std::strchr(\"He{ } j\", '\"')}\"",
     truth |-> "std::format(\"The number is: {}\", std::strchr(\"He{ } j\", '\"'))",
     expectOk |-> TRUE, lineDirectives |-> FALSE],
    [input |-> "f\"The number is: {std::strchr(R\"(Hej)\", '\\'')}\"",
     truth |-> "std::format(\"The number is: {}\", std::strchr(R\"(Hej)\", '\\''))",
     expectOk |-> TRUE, lineDirectives |-> FALSE],
    [input |-> "f\"The number is: {std::strchr(R\"xy(Hej\n{{}})xy\", '\\x0a')}\"",
     truth |-> "std::format(\"The number is: {}\", std::strchr(R\"xy(Hej\n{{}})xy\", '\\x0a'))",
     expectOk |-> TRUE, lineDirectives |-> FALSE],
    [input |-> "f\"The number is: {f\"Five: {5}\"} end\"",
     truth |-> "std::format(\"The number is: {} end\", std::format(\"Five: {}\", 5))",
     expectOk |-> TRUE, lineDirectives |-> FALSE],
    [input |-> "f\"The number is: {f\"Fi\\\nve: {5}\"}\"",
     truth |-> "std::format(\"The number is: {}\", std::format(\"Fi\\\nve: {}\", 5))",
     expectOk |-> TRUE, lineDirectives |-> FALSE],
    [input |-> "f\"The number is: {fR\"xy(Five: {5})xy\"}\"",
     truth |-> "std::format(\"The number is: {}\", std::format(R\"xy(Five: {})xy\", 5))",
     expectOk |-> TRUE, lineDirectives |-> FALSE],
    [input |-> "f\"The number is: {fR\"xy(Fi\nve: {5})xy\"}\"",
     truth |-> "std::format(\"The number is: {}\", std::format(R\"xy(Fi\nve: {})xy\", 5))",
     expectOk |-> TRUE, lineDirectives |-> FALSE],
    [input |-> "f\"{foo=}\"",
     truth |-> "std::format(\"foo={}\", foo)",
     expectOk |-> TRUE, lineDirectives |-> FALSE],
    [input |-> "f\"{foo =}\"",
     truth |-> "std::format(\"foo ={}\", foo )",
     expectOk |-> TRUE, lineDirectives |-> FALSE],
    [input |-> "f\"{foo= }\"",
     truth |-> "std::format(\"foo= {}\", foo)",
     expectOk |-> TRUE, lineDirectives |-> FALSE],
    [input |-> "f\"{foo = }\"",
     truth |-> "std::format(\"foo = {}\", foo )",
     expectOk |-> TRUE, lineDirectives |-> FALSE],
    [input |-> "Lf\"The number is: {3 * 5}\"",
     truth |-> "std::format(L\"The number is: {}\", 3 * 5)",
     expectOk |-> TRUE, lineDirectives |-> FALSE],
    [input |-> "Uf\"The number is: {3 * 5}\"",
     truth |-> "std::format(U\"The number is: {}\", 3 * 5)",
     expectOk |-> TRUE, lineDirectives |-> FALSE],
    [input |-> "uf\"The number is: {3 * 5}\"",
     truth |-> "std::format(u\"The number is: {}\", 3 * 5)",
     expectOk |-> TRUE, lineDirectives |-> FALSE],
    [input |-> "u8f\"The number is: {3 * 5}\"",
     truth |-> "std::format(u8\"The number is: {}\", 3 * 5)",
     expectOk |-> TRUE, lineDirectives |-> FALSE],
    [input |-> "Wf\"The number is: {3 * 5}\"",
     truth |-> "Wstd::format(\"The number is: {}\", 3 * 5)",
     expectOk |-> TRUE, lineDirectives |-> FALSE],
    [input |-> "u9f\"The number is: {3 * 5}\"",
     truth |-> "u9std::format(\"The number is: {}\", 3 * 5)",
     expectOk |-> TRUE, lineDirectives |-> FALSE],
    [input |-> "LfR\"xy(The number is: {3 * 5})xy\"",
     truth |-> "std::format(LR\"xy(The number is: {})xy\", 3 * 5)",
     expectOk |-> TRUE, lineDirectives |-> FALSE],
    [input |-> "Lf\"The number is: {3 * 5::<5}\"",
     truth |-> "std::format(L\"The number is: {::<5}\", 3 * 5)",
     expectOk |-> TRUE, lineDirectives |-> FALSE],
    [input |-> "Lf\"The number is: {3 * 5}\"",
     truth |-> "\n#line 1 \"test\"\nstd::format(L\"The number is: {}\"\n#line 1 \"test\"\n                 , 3 * 5)",
     expectOk |-> TRUE, lineDirectives |-> TRUE]
>>

FormatName == Chars("std::format")

TestRuns == {[input |-> Chars(tests[i].input), ld |-> tests[i].lineDirectives, fn |-> FormatName] :
                i \in 1..Len(tests)}

\* The longest text put into a frame.
MaxBody == 4

Texts(alphabet, n) == UNION {[1..k -> alphabet] : k \in 0..n}

\* The bodies over the alphabets of seven and more characters are shorter.
MaxWide == 3

\* A family: every text over the alphabet, of at most n characters, between
\* head and tail.
Family(head, alphabet, tail, n) == {Chars(head) \o b \o Chars(tail) : b \in Texts(alphabet, n)}

ShortName == Chars("fmt")

FamilyInputs ==
    Family("", {"f", "R", QUOTE, APOS, "/", "*", BSLASH, NL}, "", MaxWide)
    \cup Family("R\"", {"a", "(", ")", BSLASH, QUOTE, " ", NL}, "\"", MaxBody)
    \cup Family("f\"", {"a", "{", "}"}, "\"", MaxBody)
    \cup Family("\"", {"a", "{", "}"}, "\"", MaxBody)
    \cup Family("f\"{", {"a", "?", ":", "(", ")"}, "}\"", MaxBody)
    \cup Family("f\"{a", {":", "b", "_", "<"}, "}\"", MaxBody)
    \cup Family("f\"{", {"a", "(", ")", "[", "]", "{", "}"}, "}\"", MaxWide)
    \cup Family("f\"{", {"a", "=", " ", "{", "}", ":"}, "}\"", MaxBody)
    \cup Family("f\"{a:", {"b", "{", "}", ":", "?"}, "}\"", MaxBody)
    \cup Family("f\"{", {"(", ")", QUOTE, APOS, "/", "*", NL}, "}\"", MaxWide)
    \cup Family("x\"", {"a", "{", "}"}, "\"", MaxBody)
    \cup Family("f\"{a:", {"b", "{", "}", QUOTE, NL}, "", MaxBody)
    \cup Family("f\"{", {"a", "(", "?", ":"}, "", MaxBody)

FamilyRuns == {[input |-> i, ld |-> FALSE, fn |-> ShortName] : i \in FamilyInputs}

\* Literals with encoding prefixes, nested fields and several lines, under
\* every setting of the line directives and both kinds of function name.
OptionInputs ==
    {Chars("f\"{a} {b:{c}}\""), Chars("u8f\"{a:{b}} {c}\" x\"{d:{e}}\""), Chars("LfR\"x({a})x\""),
     Chars("x\"{a:{b}}{c}\""), Chars("UF\"{a}\" uX\"{b=}\""), Chars("  f\"{a}\n{b\n}\"\n"),
     Chars("f\"{f\"{a}\"}\""), Chars("f\"{g(\")\", a[1]) /* ( */}\""), Chars("#if f\"{a}\"\nf\"{b}\""), Chars("R\"x(a\n)x\" 'f' // f\"\n"),
     Chars("#a /\nf\"{b}\"\n"), Chars("f\"{:5}\""), Chars("x\"{x}\"\"abc\""), Chars("x\"{a}\" Lf\"b\" xR\"(c)\""), Chars("fR\"(\n{a})\""), Chars("\"a\" # f\"{b}\""), Chars(" \t# f\"{a}\"\n/**/ #\n\\#\n/#\nb#"), Chars("}\"\"f\"{a:"), Chars("fR\"({a\n:b"), Chars("a\n/* b\nc"), Chars("f\"{a}\"\nx\"{b\n"), Chars("fx\"a\""), Chars("f\"{a\n=}\"\n"), Chars("fR\"({a}\n)\" d\ne"), Chars("  f\"{a}\"\nfR\"(\n  {b:{c}})\" d\ne\n")}

OptionRuns ==
    {[input |-> i, ld |-> d, fn |-> n] :
        i \in OptionInputs, d \in BOOLEAN, n \in {ShortName, Chars("fmt*")}}

Runs == TestRuns \cup FamilyRuns \cup OptionRuns

Init ==
    /\ \E run \in Runs :
        /\ input = run.input
        /\ m_inFile = run.input
        /\ m_lineDirectives = run.ld
        /\ m_functionName = run.fn
        /\ saved = run.ld
    /\ eofbit = FALSE
    /\ m_inLine = <<>>
    /\ m_ptr = 0
    /\ m_lineNo = 0
    /\ m_outFile = <<>>
    /\ m_outLines = <<>>
    /\ continuation = FALSE
    /\ first = TRUE
    /\ pc = "start"
    /\ err = NoErr
    /\ msg = ""
    /\ lineStart = 0
    /\ pastEnd = 0
    /\ lits = <<>>
    /\ ubRead = FALSE
    /\ pass = 1
    /\ original = <<>>

Spec == Init /\ [][Next]_vars

\* runOneTest: a test of the table ends as the table says.
Terminal == pc \in {"done", "failed", "aborted", "hung"}
TestsPass ==
    \A i \in 1..Len(tests) :
        (input = Chars(tests[i].input) /\ saved = tests[i].lineDirectives
            /\ m_functionName = FormatName /\ Terminal) =>
            IF tests[i].expectOk
            THEN pc = "done" /\ m_outFile = Chars(tests[i].truth)
            ELSE pc = "failed"

(***************************************************************************)
(* Properties.  They are stated on the input, on the output and on what    *)
(* each finished literal left behind in lits, with scanners of their own.  *)
(***************************************************************************)
Ok == pc = "done"
Has(t, c) == \E i \in 1..Len(t) : t[i] = c
StartsWith(t, h) == Len(t) >= Len(h) /\ SubSeq(t, 1, Len(h)) = h
EndsWith(t, h) == Len(t) >= Len(h) /\ SubSeq(t, Len(t) - Len(h) + 1, Len(t)) = h
PlainOptions == ~saved /\ (m_functionName = <<>> \/ m_functionName[Len(m_functionName)] # "*")

\* The string literal of the input that opens at offset q has an f or x
\* directly before its quote, or before its R.
FxMarks == {"f", "F", "x", "X"}
PrefixedInInput(q) ==
    LET k == IF q >= 1 /\ input[q] = "R" THEN q - 1 ELSE q IN
    k >= 1 /\ input[k] \in FxMarks

NoFxInInput ==
    \A i \in 1..Len(lits) : lits[i].terminator = QUOTE => ~PrefixedInInput(lits[i].qpos)

\* C1: Passthrough.  With line directives disabled, a run that succeeds on
\* an input none of whose string literals has f, F, x or X before its quote
\* (or its R) writes exactly the bytes of the input.
C1_Passthrough == (Ok /\ ~saved /\ NoFxInInput) => m_outFile = input

\* A raw literal of two lines and then some more text were passed through.
C1_Witness ==
    /\ Ok /\ ~saved /\ NoFxInInput /\ m_outFile = input
    /\ \E i \in 1..Len(lits) : lits[i].raw /\ Len(lits[i].prefix) > 0 /\ Has(lits[i].lit, NL)
                                /\ lits[i].qpos + Len(lits[i].lit) < Len(input)

\* The f/x literals that were rewritten, as indices of lits.
FxLits == {i \in 1..Len(lits) : lits[i].fx # NoFx}
TopFields(e) == {k \in 1..Len(e.fields) : ~e.fields[k].nested}

Encodings == {<<>>, <<"L">>, <<"U">>, <<"u">>, <<"u", "8">>}

\* ", e1" ... ", ek" from the i-th field on
RECURSIVE ArgList(_, _)
ArgList(fields, i) ==
    IF i > Len(fields) THEN <<>>
    ELSE <<",", " ">> \o fields[i].expression \o ArgList(fields, i + 1)

ShapeOf(e) ==
    IF e.fx = "f"
    THEN m_functionName \o <<"(">> \o e.encoding \o e.lit \o ArgList(e.fields, 1) \o <<")">>
    ELSE e.lit \o ArgList(e.fields, 1)

\* The arguments stand in the order of their opening braces in the body, so
\* a nested field comes after the field whose format-spec holds it.
BraceOrder(e) ==
    /\ \A k \in 1..Len(e.fields) : e.lit[e.fields[k].at] = "{"
    /\ \A j, k \in 1..Len(e.fields) : j < k => e.fields[j].at < e.fields[k].at
    /\ \A k \in 1..Len(e.fields) : e.fields[k].nested => k > 1

\* C2: Rewrite shape.  With line directives disabled and a function name
\* not ending in '*', an f-literal is emitted as name + "(" + E + body +
\* ", e1" ... ", ek" + ")" with E one of the five encodings, an x-literal as
\* body + ", e1" ... ", ek", and the arguments are in the order of their
\* opening braces in the body.
C2_RewriteShape ==
    PlainOptions =>
        \A i \in FxLits :
            /\ lits[i].emitted = ShapeOf(lits[i])
            /\ lits[i].encoding \in Encodings
            /\ lits[i].fx = "x" => lits[i].encoding = <<>>
            /\ BraceOrder(lits[i])

\* A u8 f-literal with a nested field between two fields, and an x-literal
\* with a nested field, were both rewritten in one run.
C2_Witness ==
    /\ Ok /\ PlainOptions
    /\ \E i, j \in FxLits :
        /\ lits[i].fx = "f" /\ lits[i].encoding = <<"u", "8">>
        /\ Len(lits[i].fields) = 3 /\ lits[i].fields[2].nested
        /\ lits[i].emitted = ShapeOf(lits[i])
        /\ lits[j].fx = "x" /\ Len(lits[j].fields) = 2
        /\ lits[j].emitted = ShapeOf(lits[j])

\* The number of placeholders of a body: every '{' that is not one of a
\* doubled pair.
RECURSIVE Placeholders(_, _)
Placeholders(t, i) ==
    IF i > Len(t) THEN 0
    ELSE IF t[i] # "{" THEN Placeholders(t, i + 1)
    ELSE IF i < Len(t) /\ t[i + 1] = "{" THEN Placeholders(t, i + 2)
    ELSE 1 + Placeholders(t, i + 1)

\* C3: Placeholder/argument parity.  In a successful run the body of every
\* f/x literal has as many placeholders as arguments were appended to it,
\* whatever the text of the expressions.
C3_Parity == Ok => \A i \in FxLits : Placeholders(lits[i].lit, 1) = Len(lits[i].fields)

\* The index of the last character of t that is not white space, or 0.
LastNonSpace(t) ==
    IF \A i \in 1..Len(t) : IsSpaceChar(t[i]) THEN 0
    ELSE CHOOSE i \in 1..Len(t) : ~IsSpaceChar(t[i]) /\ \A j \in (i + 1)..Len(t) : IsSpaceChar(t[j])

IsDebug(src) == LastNonSpace(src) > 0 /\ src[LastNonSpace(src)] = "="

\* What field f put into the body before its '{'.
Inserted(e, f) == SubSeq(e.lit, f.from + 1, f.at - 1)

\* C4: Debug '=' suffix.  A top-level field whose expression has '=' as its
\* last non-blank character puts the whole expression text before its '{'
\* and hoists the text before the '='; any other top-level field puts
\* nothing before its '{' and hoists the whole expression.  The expression
\* text is the text of the input where no literal inside it was rewritten.
C4_DebugSuffix ==
    \A i \in FxLits : \A k \in TopFields(lits[i]) :
        LET e == lits[i]
            f == e.fields[k]
        IN  /\ e.lit[f.at] = "{"
            /\ ~Has(f.src, QUOTE) => f.src = SubSeq(input, f.apos + 1, f.apos + Len(f.src))
            /\ IF IsDebug(f.src)
               THEN /\ Inserted(e, f) = f.src
                    /\ f.expression = SubSeq(f.src, 1, LastNonSpace(f.src) - 1)
               ELSE /\ Inserted(e, f) = <<>>
                    /\ f.expression = f.src

\* A field with a blank on both sides of its '=' was rewritten.
C4_Witness ==
    /\ Ok
    /\ \E i \in FxLits : \E k \in TopFields(lits[i]) :
        LET e == lits[i]
            f == e.fields[k]
            pos == LastNonSpace(f.src)
        IN  /\ IsDebug(f.src) /\ pos > 2 /\ pos < Len(f.src) /\ f.src[pos - 1] = " "
            /\ Inserted(e, f) = f.src
            /\ f.expression = SubSeq(f.src, 1, pos - 1)

(***************************************************************************)
(* A scanner of expression fields of its own: it walks a text with a stack *)
(* of the closers waited for and a count of the '?' whose ':' has not come.*)
(* It stops at the first character that decides something: the end of the  *)
(* expression, a '}' under a pending '?', a closer out of place, the end of *)
(* the text.  It does not judge a text with a literal or a comment in it    *)
(* ("other"), nor "::" before an underscore unless ids holds the underscore *)
(* ("disputed").                                                           *)
(***************************************************************************)
Openers == {"(", "[", "{"}
Closers == {")", "]", "}"}
CloserOf(c) == CASE c = "(" -> ")" [] c = "[" -> "]" [] OTHER -> "}"
IdStart == Letters \cup {"_"}

RECURSIVE Scan(_, _, _, _, _)
Scan(B, i, st, q, ids) ==
    IF i > Len(B) THEN [kind |-> "eof", pos |-> i]
    ELSE IF B[i] \in {QUOTE, APOS, "/"} THEN [kind |-> "other", pos |-> i]
    ELSE IF B[i] \in Openers THEN Scan(B, i + 1, <<CloserOf(B[i])>> \o st, q, ids)
    ELSE IF st # <<>>
         THEN IF B[i] \notin Closers THEN Scan(B, i + 1, st, q, ids)
              ELSE IF B[i] = Head(st) THEN Scan(B, i + 1, Tail(st), q, ids)
              ELSE [kind |-> "mismatch", pos |-> i]
    ELSE CASE B[i] \in {")", "]"} -> [kind |-> "extraneous", pos |-> i]
           [] B[i] = "}" -> [kind |-> IF q > 0 THEN "pending" ELSE "end", pos |-> i]
           [] B[i] = "?" -> Scan(B, i + 1, st, q + 1, ids)
           [] B[i] = ":" ->
                IF i + 2 <= Len(B) /\ B[i + 1] = ":" /\ B[i + 2] \in ids
                THEN Scan(B, i + 2, st, q, ids)
                ELSE IF i + 2 <= Len(B) /\ B[i + 1] = ":" /\ B[i + 2] \in IdStart
                THEN [kind |-> "disputed", pos |-> i]
                ELSE IF q > 0 THEN Scan(B, i + 1, st, q - 1, ids)
                ELSE [kind |-> "end", pos |-> i]
           [] OTHER -> Scan(B, i + 1, st, q, ids)

\* The input from the first character of field f on, and what the scanner
\* finds there.
FieldRest(f) == SubSeq(input, f.apos + 1, Len(input))
ScanField(f, ids) == Scan(FieldRest(f), 1, <<>>, 0, ids)
Judged(r) == r.kind \notin {"other", "disputed"}
EndsWhereScanned(f, r) == r.kind = "end" /\ r.pos = Len(f.src) + 1

\* An input that opens with an f-literal and a field: f"{ and the rest,
\* which does not double the brace.
IsFieldFrame == StartsWith(input, <<"f", QUOTE, "{">>) /\ Len(input) > 3 /\ input[4] # "{"
FrameBody == SubSeq(input, 4, Len(input))
ScanFrame == Scan(FrameBody, 1, <<>>, 0, Letters)
FailedParsing == pc = "failed" /\ err = ParsingError

Count(t, c) == Cardinality({i \in 1..Len(t) : t[i] = c})

\* C5: Top-level ternary.  Outside brackets every '?' takes the next ':' of
\* depth zero into the expression, innermost first, so a field's expression
\* ends exactly at the first ':' or '}' of depth zero that no '?' is waiting
\* for; and when '}' comes while a '?' waits for its ':', the run fails with
\* a parsing error.
C5_Ternary ==
    /\ \A i \in FxLits : \A k \in 1..Len(lits[i].fields) :
            LET f == lits[i].fields[k]
                r == ScanField(f, Letters)
            IN  Judged(r) => EndsWhereScanned(f, r)
    /\ (IsFieldFrame /\ ScanFrame.kind = "pending" /\ Terminal) =>
            (FailedParsing /\ msg = "Mismatched ?")

\* A field with two '?' and their two ':' was hoisted whole.
C5_Witness ==
    /\ Ok
    /\ \E i \in FxLits : \E k \in 1..Len(lits[i].fields) :
            LET f == lits[i].fields[k] IN
            /\ Count(f.src, "?") = 2 /\ Count(f.src, ":") = 2
            /\ EndsWhereScanned(f, ScanField(f, Letters))
            /\ f.expression = f.src

\* C6: Scope operator.  At depth zero a "::" before a letter or an
\* underscore stays in the expression and does not end the field; any other
\* ':' no '?' is waiting for ends the expression and opens the format-spec.
C6_Scope ==
    \A i \in FxLits : \A k \in 1..Len(lits[i].fields) :
        LET f == lits[i].fields[k]
            r == ScanField(f, IdStart)
        IN  r.kind # "other" => EndsWhereScanned(f, r)

RECURSIVE Balanced(_, _, _)
Balanced(t, i, st) ==
    IF i > Len(t) THEN st = <<>>
    ELSE IF t[i] \in Openers THEN Balanced(t, i + 1, <<CloserOf(t[i])>> \o st)
    ELSE IF t[i] \in Closers
         THEN st # <<>> /\ t[i] = Head(st) /\ Balanced(t, i + 1, Tail(st))
    ELSE Balanced(t, i + 1, st)

\* C7: Balance.  In a successful run the brackets of every hoisted argument
\* that stand outside the literals and comments in it are balanced and
\* properly nested; an opener closed by the wrong closer, or a ')' or ']' at
\* depth zero, makes the run fail.
C7_Balance ==
    /\ Ok => \A i \in FxLits : \A k \in 1..Len(lits[i].fields) :
            LET f == lits[i].fields[k] IN
            /\ Balanced(f.skel, 1, <<>>)
            /\ f.skel = f.src => Balanced(f.expression, 1, <<>>)
    /\ (IsFieldFrame /\ ScanFrame.kind \in {"mismatch", "extraneous"} /\ Terminal) => FailedParsing

\* An argument with brackets of two kinds around a literal and a comment
\* that hold brackets of their own was hoisted.
C7_Witness ==
    /\ Ok
    /\ \E i \in FxLits : \E k \in 1..Len(lits[i].fields) :
            LET f == lits[i].fields[k] IN
            /\ Has(f.skel, "(") /\ Has(f.skel, "[")
            /\ Count(f.src, "(") > Count(f.skel, "(") /\ Count(f.src, ")") > Count(f.skel, ")")
            /\ Balanced(f.skel, 1, <<>>) /\ ~Balanced(f.src, 1, <<>>)

\* The field whose format-spec holds the nested field k of e.
Container(e, k) == CHOOSE j \in TopFields(e) : j < k /\ \A m \in TopFields(e) : m < k => m <= j

\* An input that opens with an f-literal, a field and its format-spec:
\* f"{a: and the rest, which does not make the ':' a scope operator; the
\* first '{' of the rest that is in the format-spec.
SpecBody == SubSeq(input, 6, Len(input))
IsSpecFrame ==
    /\ StartsWith(input, <<"f", QUOTE, "{", "a", ":">>)
    /\ ~(Len(SpecBody) >= 2 /\ SpecBody[1] = ":" /\ SpecBody[2] \in IdStart)
FirstNested(B) ==
    IF \E k \in 1..Len(B) : B[k] = "{" /\ \A j \in 1..(k - 1) : B[j] \notin {"{", "}"}
    THEN CHOOSE k \in 1..Len(B) : B[k] = "{" /\ \A j \in 1..(k - 1) : B[j] \notin {"{", "}"}
    ELSE 0
NestedEndsAtColon ==
    LET k == FirstNested(SpecBody)
        r == Scan(SpecBody, k + 1, <<>>, 0, Letters)
    IN  k > 0 /\ r.kind = "end" /\ SpecBody[r.pos] = ":"

\* C8: Nested width/precision field.  A '{' in a format-spec opens a field
\* that is hoisted as one more argument, as it stands, and leaves "{}" in the
\* format-spec; when the nested expression ends at a ':' instead of a '}'
\* the run fails with a parsing error and process() returns false.
C8_NestedField ==
    /\ \A i \in FxLits : \A k \in 1..Len(lits[i].fields) :
            LET e == lits[i]
                f == e.fields[k]
            IN  f.nested =>
                    /\ k > 1 /\ e.lit[e.fields[Container(e, k)].at + 1] = ":"
                    /\ e.lit[f.at] = "{" /\ e.lit[f.at + 1] = "}"
                    /\ Inserted(e, f) = <<>> /\ f.expression = f.src
                    /\ PlainOptions => e.emitted = ShapeOf(e)
    /\ (IsSpecFrame /\ NestedEndsAtColon /\ Terminal) =>
            (FailedParsing /\ msg = "nested expression-field ending in :")

\* A nested field that stands behind other characters of the format-spec
\* was hoisted.
C8_Witness ==
    /\ Ok
    /\ \E i \in FxLits : \E k \in 1..Len(lits[i].fields) :
            LET e == lits[i]
                f == e.fields[k]
            IN  /\ f.nested /\ f.src # <<>> /\ e.lit[f.at - 1] # ":"
                /\ e.lit[f.at] = "{" /\ e.lit[f.at + 1] = "}"
                /\ e.fields[k - 1].at < f.at

\* An input that is one literal on one line: head, a body with no quote,
\* backslash or line end in it, and the closing quote.
OneLiteral(head) ==
    /\ StartsWith(input, head) /\ Len(input) > Len(head) /\ input[Len(input)] = QUOTE
    /\ \A i \in (Len(head) + 1)..(Len(input) - 1) : input[i] \notin {QUOTE, BSLASH, NL}
BodyAfter(head) == SubSeq(input, Len(head) + 1, Len(input) - 1)

\* What the braces of an f/x literal body are from index i on: all doubled
\* ("plain"), a '}' with no '}' behind it first ("lone"), or a '{' with no
\* '{' behind it first ("field").
RECURSIVE BraceScan(_, _)
BraceScan(B, i) ==
    IF i > Len(B) THEN "plain"
    ELSE IF B[i] = "{" THEN (IF i < Len(B) /\ B[i + 1] = "{" THEN BraceScan(B, i + 2) ELSE "field")
    ELSE IF B[i] = "}" THEN (IF i < Len(B) /\ B[i + 1] = "}" THEN BraceScan(B, i + 2) ELSE "lone")
    ELSE BraceScan(B, i + 1)

\* The rewriting of an f/x literal with the prefix fx whose body B opens no
\* field.
Unchanged(fx, B) ==
    IF fx = "f" THEN m_functionName \o <<"(", QUOTE>> \o B \o <<QUOTE, ")">>
    ELSE <<QUOTE>> \o B \o <<QUOTE>>

\* C9: Brace escaping.  In the body of an f/x literal, outside any field,
\* "{{" and "}}" are copied unchanged and open no field, and a '}' with no
\* '}' directly behind it makes the run fail with a parsing error; in a
\* literal with no f/x prefix braces are not interpreted at all.
C9_Braces ==
    /\ \A fx \in {"f", "x"} :
        (OneLiteral(<<fx, QUOTE>>) /\ Terminal) =>
            LET B == BodyAfter(<<fx, QUOTE>>) IN
            /\ BraceScan(B, 1) = "plain" =>
                    /\ Ok /\ Len(lits) = 1 /\ lits[1].fields = <<>>
                    /\ PlainOptions => m_outFile = Unchanged(fx, B)
            /\ BraceScan(B, 1) = "lone" =>
                    FailedParsing /\ msg = "Right brace characters must be doubled"
    /\ (OneLiteral(<<QUOTE>>) /\ Terminal) =>
            (Ok /\ Len(lits) = 1 /\ lits[1].fields = <<>> /\ (~saved => m_outFile = input))

\* An f-literal whose body holds "{{" and "}}" was rewritten.
C9_Witness ==
    /\ Ok /\ PlainOptions /\ OneLiteral(<<"f", QUOTE>>)
    /\ LET B == BodyAfter(<<"f", QUOTE>>) IN
        /\ BraceScan(B, 1) = "plain" /\ Count(B, "{") = 2 /\ Count(B, "}") = 2
        /\ m_outFile = Unchanged("f", B)

\* The raw string literals passed, as indices of lits.
RawLits == {i \in 1..Len(lits) : lits[i].raw}

\* An input that opens with R" and the rest; the index in the rest of its
\* first '(' or line end, or 0.
IsRawFrame == StartsWith(input, <<"R", QUOTE>>)
RawBody == SubSeq(input, 3, Len(input))
FirstStop(B) ==
    IF \E k \in 1..Len(B) : B[k] \in {"(", NL}
    THEN CHOOSE k \in 1..Len(B) : B[k] \in {"(", NL} /\ \A j \in 1..(k - 1) : B[j] \notin {"(", NL}
    ELSE 0
NoParenOnLine == FirstStop(RawBody) = 0 \/ RawBody[FirstStop(RawBody)] = NL

\* C10 as the specification has it: no raw string literal is accepted whose
\* delimiter holds ')', a backslash, '"', a blank or a line end.
Forbidden == {")", BSLASH, QUOTE, " ", "\t", NL}
LineStartOf(q) ==
    LET nls == {i \in 1..q : input[i] = NL} IN
    IF nls = {} THEN 0 ELSE CHOOSE i \in nls : \A j \in nls : j <= i

\* The one-based line and the zero-based column of offset q.
LineOf(q) == 1 + Cardinality({i \in 1..q : input[i] = NL})
ColOf(q) == q - LineStartOf(q)

\* The line that starts at offset b, without its line end.
LineEndOf(b) ==
    IF \E i \in (b + 1)..Len(input) : input[i] = NL
    THEN CHOOSE i \in (b + 1)..Len(input) : input[i] = NL /\ \A j \in (b + 1)..(i - 1) : input[j] # NL
    ELSE Len(input) + 1
LineText(b) == SubSeq(input, b + 1, LineEndOf(b) - 1)

FirstNonSpace(t) ==
    IF \A i \in 1..Len(t) : IsSpaceChar(t[i]) THEN 0
    ELSE CHOOSE i \in 1..Len(t) : ~IsSpaceChar(t[i]) /\ \A j \in 1..(i - 1) : IsSpaceChar(t[j])

\* The line that starts at offset b is a preprocessor directive: its first
\* non-blank character is '#', or the line before it is one and ends in a
\* backslash.
RECURSIVE InDirective(_)
InDirective(b) ==
    LET t == LineText(b)
        before == LineText(LineStartOf(b - 1))
    IN  \/ FirstNonSpace(t) > 0 /\ t[FirstNonSpace(t)] = "#"
        \/ /\ b > 0
           /\ LastNonSpace(before) > 0 /\ before[LastNonSpace(before)] = BSLASH
           /\ InDirective(LineStartOf(b - 1))

\* What an f/x literal writes before its body.
HeadOf(e) ==
    IF e.fx = "f" THEN CallName(m_functionName, Len(e.fields)) \o <<"(">> \o e.encoding ELSE <<>>

\* The arguments from the i-th on, each behind its line directive.
RECURSIVE DirectedArgs(_, _)
DirectedArgs(fields, i) ==
    IF i > Len(fields) THEN <<>>
    ELSE LineDirectiveText(LineOf(fields[i].apos), ColOf(fields[i].apos) - 2)
            \o <<",", " ">> \o fields[i].expression \o DirectedArgs(fields, i + 1)

\* C11: Line directive per field.  With line directives enabled, every
\* argument hoisted from an f/x literal that stands outside preprocessor
\* directives comes in the output after a line end, '#line L "path"', a line
\* end and C-2 blanks and ", ", where L and C are the one-based line and the
\* zero-based column of the input at which the field's expression starts.
C11_LineDirectives ==
    saved =>
        \A i \in FxLits :
            LET e == lits[i] IN
            ~InDirective(LineStartOf(e.qpos)) =>
                StartsWith(e.emitted, HeadOf(e) \o e.lit \o DirectedArgs(e.fields, 1))

Contains(t, h) == \E i \in 1..(Len(t) - Len(h) + 1) : SubSeq(t, i, i + Len(h) - 1) = h

\* The text e wrote holds x behind its body, and a #line marker behind that x.
MarkerBehind(e, x) ==
    \E k \in (Len(HeadOf(e)) + Len(e.lit) + Len(x))..Len(e.emitted) :
        /\ SubSeq(e.emitted, k - Len(x) + 1, k) = x
        /\ Contains(SubSeq(e.emitted, k + 1, Len(e.emitted)), Chars("#line "))

\* C12: Position restore.  With line directives enabled, an f/x literal
\* outside preprocessor directives that has at least one field writes, after
\* its last hoisted argument, one more #line marker (the one that sets the
\* position back to the character behind the literal's closing quote).
C12_PositionRestore ==
    saved =>
        \A i \in FxLits :
            LET e == lits[i] IN
            (e.fields # <<>> /\ ~InDirective(LineStartOf(e.qpos))) =>
                MarkerBehind(e, e.fields[Len(e.fields)].expression)

EndsInNL(t) == t # <<>> /\ t[Len(t)] = NL

\* C13: Newline preservation.  With line directives disabled, a run that
\* succeeds writes as many line ends as the input has, and its output ends
\* in a line end exactly when the input does, also when fields, debug fields,
\* comments or raw literals span several lines.
C13_Newlines ==
    (Ok /\ ~saved) =>
        /\ Count(m_outFile, NL) = Count(input, NL)
        /\ EndsInNL(m_outFile) <=> EndsInNL(input)

\* C14: Idempotence.  With line directives disabled, a run on what a
\* successful run wrote succeeds too and writes its input unchanged.
C14_Idempotent == (pass = 2 /\ Terminal) => (Ok /\ m_outFile = input)

\* What tryProcess writes before its loop (line 45), and what m_outFile holds
\* behind that.
Preamble == IF saved THEN LineDirectiveText(1, 0) ELSE <<>>
Written == SubSeq(m_outFile, Len(Preamble) + 1, Len(m_outFile))
WholeLines(t) == t = <<>> \/ EndsInNL(t)
Failed == pc = "failed"

\* t is the lines of the input that end before the line under the cursor.
LinesBefore(t) ==
    /\ WholeLines(t)
    /\ Len(t) <= lineStart /\ Len(t) <= Len(input)
    /\ t = SubSeq(input, 1, Len(t))

\* C15 as the specification has it: when process() returns false the output
\* holds the text flushed at the ends of the lines completed before the
\* failing region, and nothing else (where no literal was rewritten: those
\* lines of the input themselves).
C15_NoPartialOutput ==
    Failed => (WholeLines(m_outFile) /\ (NoFxInInput => LinesBefore(m_outFile)))

\* C15, amended: when process() returns false the output holds the #line
\* directive written before the first line, if line directives are enabled,
\* and behind it whole lines only, each flushed at its line end (where no
\* literal was rewritten: the lines of the input before the line the error
\* was detected in); the step that fails writes nothing, no step before it
\* wrote but at a line end, and no step follows it.
C15_WholeLinesOnly ==
    /\ [](Failed => /\ StartsWith(m_outFile, Preamble)
                    /\ WholeLines(Written)
                    /\ NoFxInInput => LinesBefore(Written))
    /\ [][(pc' = "failed" \/ (pc = "inner" /\ peek(Cur) \notin {NL, NUL})) => m_outFile' = m_outFile]_vars
    /\ [][~Failed]_vars

\* A run with line directives enabled failed in a region of several lines:
\* the output holds the directive and the lines before the region, and none
\* of the text staged for the region.
C15_Witness ==
    /\ Failed /\ saved /\ NoFxInInput
    /\ Written # <<>> /\ LinesBefore(Written) /\ Len(Written) < lineStart
    /\ m_outLines # <<>>

\* The input ends with a token open: a block comment, a string literal, an
\* expression field or the format-spec of a field that nothing closes.
CommentOpen == StartsWith(input, <<"/", "*">>) /\ ~Contains(SubSeq(input, 3, Len(input)), <<"*", "/">>)
StringOpen ==
    /\ StartsWith(input, <<QUOTE>>)
    /\ \A i \in 2..Len(input) : input[i] \notin {QUOTE, BSLASH, NL}
FieldOpen == IsFieldFrame /\ ScanFrame.kind = "eof"
SpecOpen == IsSpecFrame /\ \A i \in 1..Len(SpecBody) : SpecBody[i] \notin {"{", "}"}
OpenAtEnd == CommentOpen \/ StringOpen \/ FieldOpen \/ SpecOpen

\* C16: End of input inside an open token is fatal.  When the input ends
\* with a comment, a literal, an expression field or a format-spec open,
\* process() returns false, and the scanner never asks for a line after the
\* end of the input (so it neither goes on consuming nor reads a line again).
C16_EndOfInputFatal ==
    /\ pastEnd = 0
    /\ (Terminal /\ OpenAtEnd) => Failed

\* The step passes a '#' and switches the line directives off.
HashSwitchesOff == pc = "inner" /\ peek(Cur) = "#" /\ m_lineDirectives /\ ~m_lineDirectives'
BlankBeforeCursor == \A j \in 1..m_ptr : IsSpaceChar(m_inLine[j])

\* C17: Preprocessor-directive recognition.  A '#' switches the line
\* directives off only when every character before it on its physical line
\* is white space: not behind a literal, a comment, a '/' or a backslash.
C17_HashFirstOnly == [][HashSwitchesOff => BlankBeforeCursor]_vars

\* The cursor is at the end of the input; at a line end before it.
AtEndOfInput == pc \in {"outer", "inner"} /\ peek(Cur) = NUL /\ m_inFile = <<>>
AtLineEnd == pc = "inner" /\ peek(Cur) = NL
SameCursor(t) == t.inLine = m_inLine /\ t.ptr = m_ptr /\ t.lineNo = m_lineNo

\* The line of the input that follows the one under the cursor, with its
\* line end if it has one.
FollowingLine ==
    LET b == lineStart + Len(m_inLine) IN
    SubSeq(input, b + 1, IF LineEndOf(b) <= Len(input) THEN LineEndOf(b) ELSE Len(input))

\* C18: Cursor at end of input.  At the end of the input next() returns the
\* NUL byte and leaves the line, the offset and the line number as they are;
\* at a line end before the end of the input next() returns a line end and
\* loads the following line.
C18_NextAtEnd ==
    /\ AtEndOfInput => (nextChar(Cur) = NUL /\ SameCursor(next(Cur)))
    /\ AtLineEnd => /\ nextChar(Cur) = NL
                    /\ next(Cur).inLine = FollowingLine
                    /\ next(Cur).ptr = 0 /\ next(Cur).lineNo = m_lineNo + 1

\* C19: Non-negative indentation.  With line directives enabled the column
\* of every recorded field is at least 2, so makeLineDirective is never asked
\* for a negative number of blanks and no run ends in the std::length_error
\* that process() does not catch.
C19_Indentation ==
    saved =>
        /\ err # LengthError /\ pc # "aborted"
        /\ \A i \in FxLits : \A k \in 1..Len(lits[i].fields) : lits[i].fields[k].col >= 2

\* The prefix processStringLiteral took for the literal e, as it stood in the
\* staged output: the encoding, the f/x mark and the R.
TakenPrefix(e) ==
    e.encoding \o (IF e.fx # NoFx THEN <<e.fx>> ELSE <<>>) \o (IF e.raw THEN <<"R">> ELSE <<>>)

\* The characters of the input directly before the opening quote of e, as
\* many as were taken, with the f/x mark in lower case.
BeforeQuote(e) ==
    LET n == Len(TakenPrefix(e))
        mark == n - (IF e.raw THEN 1 ELSE 0)
    IN  IF n > e.qpos THEN <<>>
        ELSE [j \in 1..n |-> IF j = mark /\ e.fx # NoFx THEN ToLower(input[e.qpos - n + j])
                             ELSE input[e.qpos - n + j]]

\* C20: Prefix reclamation touches only the literal's own prefix.  What is
\* taken from the staged output as the R, the f/x mark and the encoding of a
\* string literal are the characters of the input directly before its
\* opening quote, never text an earlier rewrite produced; so a literal is
\* treated as f/x only if the input has f, F, x or X before its quote or R.
C20_OwnPrefix ==
    \A i \in 1..Len(lits) :
        lits[i].terminator = QUOTE =>
            /\ TakenPrefix(lits[i]) = BeforeQuote(lits[i])
            /\ lits[i].fx # NoFx => PrefixedInInput(lits[i].qpos)

\* An input that opens with an f-literal and a field whose expression is
\* empty or all blank: f"{ and blanks, and then '}' or the ':' of a
\* format-spec.
EmptyFieldFrame ==
    /\ IsFieldFrame
    /\ LET k == FirstNonSpace(FrameBody) IN
        /\ k > 0 /\ FrameBody[k] \in {"}", ":"}
        /\ ~(FrameBody[k] = ":" /\ k + 2 <= Len(FrameBody) /\ FrameBody[k + 1] = ":"
                /\ FrameBody[k + 2] \in IdStart)
IsBlank(t) == \A i \in 1..Len(t) : IsSpaceChar(t[i])

\* C21: Empty expression field.  For a field whose expression is empty or
\* all blank the debug-suffix check reads no character outside the
\* expression, the field is not taken as a debug field (nothing is put before
\* its '{' and its text is the argument), and the run ends with process()
\* returning true or false.
C21_EmptyField ==
    /\ ~ubRead
    /\ (EmptyFieldFrame /\ Terminal) => pc \in {"done", "failed"}
    /\ \A i \in FxLits : \A k \in TopFields(lits[i]) :
            LET e == lits[i]
                f == e.fields[k]
            IN  IsBlank(f.src) => (Inserted(e, f) = <<>> /\ f.expression = f.src)

====
